---- MODULE Spec2Model ----
(***************************************************************************)
(* QuestStream: the orchestrator loop of                                   *)
(* QuestReconstructionPipeline.run_reconstruction                          *)
(* (src/modules/quest_reconstruction_pipeline.py) together with the parts  *)
(* of QuestReconstructor (src/modules/reconstruction.py) and of the GUI    *)
(* worker (src/modules/gui.py) it interacts with.                          *)
(*                                                                         *)
(* A frame of self.frames is identified by its absolute index in the       *)
(* list.  The content of a frame (its pose entry) is read by the loop at   *)
(* lines 209-217 when the frame is visited; the files of a camera are read *)
(* from disk by process_quest_frame at line 224.  Both are inputs of the   *)
(* step that reads them and are drawn there.                               *)
(***************************************************************************)
EXTENDS Integers, Sequences, FiniteSets, TLC

\* ---------------------------------------------------------------- bounds
MaxFrames == 3        \* len(self.frames) ranges over 0..MaxFrames
MaxInterval == 2      \* frame_interval ranges over 1..MaxInterval
BlockCount == 1       \* reconstruction.block_count, the capacity of the grid
MaxNewBlocks == 1     \* blocks one frame can newly touch
MaxRotLen == 5        \* a rig rotation has 0..MaxRotLen components
MaxGridFrames == 3    \* integrate_frame calls followed on one grid
MaxWeightCap == 2     \* the weight cap w_max ranges over 1..MaxWeightCap
MaxCapacity == 2      \* block_count of a followed grid: 1..MaxCapacity
MaxTriangles == 3     \* an extracted mesh has 0..MaxTriangles triangles
MaxIterations == 1    \* smoothing_iterations ranges over 0..MaxIterations
MaxProcs == 2         \* a trainer launches at most MaxProcs subprocesses
MaxLines == 2         \* a subprocess prints at most MaxLines lines
MaxRows == 3          \* a descriptor csv has at most MaxRows rows

\* ------------------------------------------------------------- constants
SuspiciousFx == 400   \* line 327: curr_fx < 400 skips the camera

\* Python's None: as a returned value or exception, and as an optional
\* integer (the empty sequence; <<n>> stands for the integer n).
NoValue == [kind |-> "None"]
Nothing == <<>>

CameraModes == {"left", "right", "both", "color"}

\* What lines 209-217 find in frame['pose'].
\*   ok          position and rotation present, unit quaternion
\*   missing     no 'pose' (or 'position'/'rotation') key: KeyError, line 209
\*   zero_norm   rotation of (near) zero norm: R.from_quat raises ValueError
\*   bad_length  rotation without 4 components: R.from_quat raises ValueError
\*   non_finite  a NaN/inf entry that reaches the camera-to-world matrix
PoseKinds == {"ok", "missing", "zero_norm", "bad_length", "non_finite"}

\* The focal lengths get_camera_intrinsics can return (fx): one below the
\* threshold of line 327, the default 867.0 of line 86.
FxValues == {350, 867}

\* What one iteration of the camera loop reads: the result of
\* process_quest_frame, an exception of lines 235-323, the focal length, the
\* blocks the depth map newly touches, an exception of integrate_frame.
CameraInputs ==
    {[load |-> "none", prep_raises |-> FALSE, fx |-> 867, nb |-> 0,
      integ_raises |-> FALSE],
     [load |-> "ok", prep_raises |-> TRUE, fx |-> 867, nb |-> 0,
      integ_raises |-> FALSE],
     [load |-> "ok", prep_raises |-> FALSE, fx |-> 350, nb |-> 0,
      integ_raises |-> FALSE],
     [load |-> "ok", prep_raises |-> FALSE, fx |-> 867, nb |-> 0,
      integ_raises |-> TRUE]}
    \cup {[load |-> "ok", prep_raises |-> FALSE, fx |-> 867, nb |-> n,
           integ_raises |-> FALSE] : n \in 0..MaxNewBlocks}

Min(a, b) == IF a < b THEN a ELSE b

VARIABLES
    has_open3d,        \* HAS_OPEN3D: self.reconstructor is not None
    total_frames,      \* len(self.frames)
    pc,                \* position of run_reconstruction
    camera,            \* argument camera
    frame_interval,    \* argument frame_interval
    start_frame,       \* argument start_frame
    end_frame,         \* argument end_frame: <<e>>, or Nothing when omitted
    on_log,            \* TRUE iff an on_log callback was supplied
    is_cancelled,      \* TRUE iff a cancellation predicate was supplied
    cancel_requested,  \* what the predicate returns: not thread._is_running
    processing_frames, \* the frames of frames_subset[::frame_interval]
    i,                 \* loop variable of enumerate(processing_frames)
    cam_idx,           \* position in cameras_to_process
    frame,             \* pose entry of the frame being processed
    processed_count,
    failed_count,
    vbg_blocks,        \* number of active blocks of self.reconstructor.vbg
    poll_log,          \* values of i at which is_cancelled() was called
    cancel_seen,       \* Nothing, or <<i>> where is_cancelled() was true
    frame_calls,       \* arguments of the on_frame calls
    progress_calls,    \* arguments of the on_progress calls
    load_calls,        \* <<frame, camera>> of the process_quest_frame calls
    last_integrate,    \* Nothing, or <<frame, camera>> of the last
                       \* integrate_frame call
    last_outcome,      \* how the last camera iteration ended
    extract_calls,     \* number of extract_mesh calls
    exported,          \* TRUE iff write_triangle_mesh wrote a file
    result,            \* value returned to the caller
    error,             \* exception delivered to the caller
    mesh_out,          \* NoValue, or the mesh extract_mesh returned and the
                       \* post-processing operations applied to it
    export_env,        \* Nothing, or <<b>> once a run has its mesh: b is
                       \* TRUE iff export.save_mesh is true and
                       \* write_triangle_mesh can write the file
    ext_pc,            \* position of a get_camera_extrinsics call
    ext_camera,        \* its argument camera
    ext_rotation,      \* the camera's 'rotation' entry of camera_metadata
    ext_result,        \* what the call returned or raised
    g_pc,              \* position of integrate_frame on the followed grid
    g_wmax,            \* weight cap of the integrator
    g_capacity,        \* block_count the grid was created with
    g_keys,            \* hashmap: the active block coordinates, in the
                       \* order of their buffer indices 1..Len(g_keys)
    g_blocks,          \* value buffer: the voxels of block g_keys[n]
    g_frame,           \* the frame integrate_frame is working on
    g_indices,         \* buf_indices hashmap.activate returned last
    g_count,           \* how often each frame has been integrated
    g_capped,          \* TRUE once a weight was clipped to g_wmax
    post_pc,           \* position of an extract_mesh call followed alone
    post_mesh,         \* what vbg.extract_triangle_mesh().to_legacy() gave
    post_config,       \* the post_processing section of the configuration
    post_result,       \* what the call returned
    intr_pc,           \* position of a camera iteration from line 235 on
    intr_depth_info,   \* depth_info: NoValue, or the descriptor row
    intr_meta,         \* the 'intrinsics' entry of the camera's metadata
    intr_result,       \* what get_camera_intrinsics returned
    intr_used,         \* how the iteration went on at lines 325-345
    pose_pc,           \* position of one pose row followed from csv to use
    pose_row,          \* the hmd_poses.csv row: rot_w, rot_x, rot_y, rot_z
    pose_written,      \* frame['pose']['rotation'] as frames.json holds it
    pose_read,         \* the quaternion run_reconstruction takes it for
    thread_pc,         \* position of ReconstructionThread.run around the call
    finished_calls,    \* how often on_finished was invoked
    error_calls,       \* how often on_error was invoked
    tr_is_running,     \* self.is_running
    tr_process,        \* self.process: 0 for None, else a process number
    tr_procs,          \* the subprocesses launched so far, in launch order
    tr_mon,            \* the monitor threads started so far, in start order
    tr_completions,    \* the invocations of completion_callback, in order
    tr_progress_calls, \* how often progress_callback was invoked
    tr_step_lines,     \* how many lines with a step number were read
    tr_last,           \* how the last start_training or stop_training ended
    desc_pc,           \* position of one load_depth_descriptor call
    desc_rows,         \* timestamp_ms of the csv's rows, in file order
    desc_timestamp,    \* the timestamp asked for
    desc_result        \* <<k>> when row k was returned, <<>> for None

run_vars == <<has_open3d, total_frames, pc, camera, frame_interval, start_frame,
          end_frame, on_log, is_cancelled, cancel_requested,
          processing_frames, i, cam_idx, frame, processed_count,
          failed_count, vbg_blocks, poll_log, cancel_seen, frame_calls,
          progress_calls, load_calls, last_integrate, last_outcome,
          extract_calls, exported, result, error, export_env, mesh_out>>

ext_vars == <<ext_pc, ext_camera, ext_rotation, ext_result>>

grid_vars == <<g_pc, g_wmax, g_capacity, g_keys, g_blocks, g_frame,
               g_indices, g_count, g_capped>>

post_vars == <<post_pc, post_mesh, post_config, post_result>>

intr_vars == <<intr_pc, intr_depth_info, intr_meta, intr_result, intr_used>>

pose_vars == <<pose_pc, pose_row, pose_written, pose_read>>

thread_vars == <<thread_pc, finished_calls, error_calls>>

train_vars == <<tr_is_running, tr_process, tr_procs, tr_mon, tr_completions,
               tr_progress_calls, tr_step_lines, tr_last>>

desc_vars == <<desc_pc, desc_rows, desc_timestamp, desc_result>>

aux_vars == <<ext_vars, grid_vars, post_vars,
              intr_vars,
              pose_vars,
              thread_vars,
              train_vars,
              desc_vars>>

vars == <<run_vars, aux_vars>>

\* ------------------------------------------------------ pure functions

\* self.frames, each frame standing for its absolute index.
Frames(n) == [j \in 1..n |-> j - 1]

\* Python s[lo:hi] for lo >= 0 and hi >= 0.
Slice(s, lo, hi) ==
    LET l == Min(lo, Len(s))
        h == Min(hi, Len(s))
    IN IF h > l THEN SubSeq(s, l + 1, h) ELSE <<>>

\* Mutant of Stride: the stride applied from the end of the list (s[::-k]).
StrideReversed(s, k) ==
    [j \in 1..((Len(s) + k - 1) \div k) |-> s[Len(s) - (j - 1) * k]]

\* Python s[::k] for k >= 1.
Stride(s, k) == [j \in 1..((Len(s) + k - 1) \div k) |-> s[(j - 1) * k + 1]]

\* Mutant of EffectiveEnd: a supplied end index is taken as exclusive.
EffectiveEndExclusive(e, total) ==
    IF e = Nothing THEN total - 1
    ELSE IF e[1] >= total THEN total - 1 ELSE e[1] - 1

\* lines 173-175: the effective end index.
EffectiveEnd(e, total) ==
    IF e = Nothing THEN total - 1
    ELSE IF e[1] >= total THEN total - 1 ELSE e[1]

\* lines 173-177 and 191.
ProcessingFrames(total, s, e, k) ==
    Stride(Slice(Frames(total), s, EffectiveEnd(e, total) + 1), k)

\* line 183.
CamerasToProcess(c) == IF c = "both" THEN <<"left", "right">> ELSE <<c>>

\* line 222.
ActualCam(c) == IF c = "color" THEN "left" ELSE c

\* Mutant of CurrentRealIndex: the stride is forgotten.
CurrentRealIndexNoStride(s, n, k) == s + n

\* line 199.
CurrentRealIndex(s, n, k) == s + n * k

\* line 202: int((i + 1) / total_processing * 100).  The float expression
\* truncates to the integer quotient for every total_processing below 50.
Percent(n, total) == ((n + 1) * 100) \div total

\* Mutant of ShouldReturn: the value of the predicate is ignored.
ShouldReturnNever(supplied, value) == FALSE

\* line 195: `if is_cancelled and is_cancelled()`.
ShouldReturn(supplied, value) == supplied /\ value

\* Mutant of FramePolls: the predicate is called again inside the iteration.
FramePollsTwice(supplied, n) == IF supplied THEN <<n, n>> ELSE <<>>

\* line 195: the calls of the predicate made by iteration n.
FramePolls(supplied, n) == IF supplied THEN <<n>> ELSE <<>>

\* Mutant of CancelledResult: a cancelled run returns what it has so far.
CancelledResultPartial(processed, failed) ==
    [kind |-> "dict", mesh |-> "mesh", processed_frames |-> processed,
     failed_frames |-> failed, output_path |-> "None"]

\* line 197: what a cancelled run returns.
CancelledResult(processed, failed) == NoValue

\* lines 209-214: the exception pose resolution raises, if any.
PoseError(kind) ==
    CASE kind = "missing" -> "KeyError"
      [] kind \in {"zero_norm", "bad_length"} -> "ValueError"
      [] OTHER -> "None"

\* lines 224-351: how one iteration of the camera loop ends.
\*   load          "ok" iff process_quest_frame returned an image and a depth
\*   prep_raises   an exception was raised by lines 235-323
\*   fx            intrinsics[0,0]
\*   kind          the pose entry of the frame
\*   blocks, nb    active blocks of the grid, blocks the frame newly touches
\*   integ_raises  integrate_frame raised for another reason than capacity
CameraOutcome(load, prep_raises, fx, kind, blocks, nb, integ_raises) ==
    IF load # "ok" THEN "load_failed"                       \* lines 230-232
    ELSE IF prep_raises THEN "error"                        \* lines 348-351
    ELSE IF fx < SuspiciousFx THEN "skipped_intrinsics"     \* lines 327-331
    ELSE IF kind = "non_finite" THEN "skipped_pose"         \* lines 333-337
    ELSE IF blocks + nb > BlockCount THEN "capacity"        \* lines 340, 348
    ELSE IF integ_raises THEN "integrate_error"             \* lines 340, 348
    ELSE "integrated"                                       \* lines 340-346

\* Outcomes that executed the call of line 340.
CallsIntegrate == {"integrated", "capacity", "integrate_error"}

\* line 346.
ProcessedAfter(n, outcome) == IF outcome = "integrated" THEN n + 1 ELSE n

\* lines 231 and 351.
FailedAfter(n, outcome) ==
    IF outcome \in {"load_failed", "error", "capacity", "integrate_error"}
    THEN n + 1 ELSE n

\* Mutant of CompletedResult: the two counters are exchanged.
CompletedResultSwapped(processed, failed, path) ==
    [kind |-> "dict", mesh |-> "mesh", processed_frames |-> failed,
     failed_frames |-> processed, output_path |-> path]

\* lines 398-403.
CompletedResult(processed, failed, path) ==
    [kind |-> "dict", mesh |-> "mesh", processed_frames |-> processed,
     failed_frames |-> failed, output_path |-> path]

\* lines 360-394 and 402: the output path of the result.
OutputPath(log, save_mesh, written) ==
    IF log /\ save_mesh /\ written THEN "file" ELSE "None"

\* ------------------------------------------------------------- the run

RunDefaults ==
    /\ pc = "idle"
    /\ camera = "left"
    /\ frame_interval = 1
    /\ start_frame = 0
    /\ end_frame = Nothing
    /\ on_log = FALSE
    /\ is_cancelled = FALSE
    /\ cancel_requested = FALSE
    /\ processing_frames = <<>>
    /\ i = 0
    /\ cam_idx = 0
    /\ frame = "ok"
    /\ processed_count = 0
    /\ failed_count = 0
    /\ vbg_blocks = 0
    /\ poll_log = <<>>
    /\ cancel_seen = Nothing
    /\ frame_calls = <<>>
    /\ progress_calls = <<>>
    /\ load_calls = <<>>
    /\ last_integrate = Nothing
    /\ last_outcome = "none"
    /\ extract_calls = 0
    /\ exported = FALSE
    /\ result = NoValue
    /\ error = NoValue
    /\ export_env = Nothing
    /\ mesh_out = NoValue

\* No get_camera_extrinsics call is being followed.
ExtrIdle ==
    /\ ext_pc = "off"
    /\ ext_camera = "left"
    /\ ext_rotation = <<>>
    /\ ext_result = NoValue

\* ---------------------------------------------- the voxel block grid

\* World coordinates of back-projected depth pixels, along one axis and in
\* units of half a block edge.
BlockSize == 2

\* The truncation distance voxel_size * trunc_voxel_multiplier, in the
\* units of the signed distances below.
Trunc == 2

\* The per-observation weight of the integrator.
WObs == 1

Voxels == {1, 2}

\* Point clouds of a depth map (lines 141-151): one pixel, or two pixels in
\* the same block or in neighbouring blocks.
PointLists == {<<0>>, <<-1>>, <<0, 1>>, <<-1, 0>>, <<0, -1>>}

\* What a frame shows of the two voxels of a block it touches: whether the
\* voxel projects to a pixel with valid depth, sdf = d_obs - depth along
\* the ray, and the colour of the pixel.
ObsPatterns ==
    {<<[valid |-> TRUE, sdf |-> 3, c |-> 1],
       [valid |-> TRUE, sdf |-> 3, c |-> 1]>>,
     <<[valid |-> TRUE, sdf |-> -1, c |-> 0],
       [valid |-> TRUE, sdf |-> -2, c |-> 0]>>,
     <<[valid |-> TRUE, sdf |-> 0, c |-> 0],
       [valid |-> FALSE, sdf |-> 0, c |-> 0]>>}

GridFrames == {[points |-> ps, obs |-> o] : ps \in PointLists,
                                           o \in ObsPatterns}

\* A block as allocated: tsdf and colour are fractions <<num, den>>.
EmptyVoxel == [tsdf |-> <<0, 1>>, weight |-> 0, color |-> <<0, 1>>]
EmptyBlock == [v \in Voxels |-> EmptyVoxel]
EmptyGrid == [keys |-> <<>>, blocks |-> <<>>]

\* No grid is being followed.
GridIdle ==
    /\ g_pc = "off"
    /\ g_wmax = 1
    /\ g_capacity = 1
    /\ g_keys = <<>>
    /\ g_blocks = <<>>
    /\ g_frame = NoValue
    /\ g_indices = <<>>
    /\ g_count = <<>>
    /\ g_capped = FALSE

\* ------------------------------------------------- extract_mesh

\* A legacy triangle mesh: its vertex and triangle counts, and whether it
\* is free of degenerate and duplicated elements with vertex normals
\* computed.
EmptyMesh == [vertices |-> 0, triangles |-> 0, clean |-> TRUE]

Meshes ==
    {EmptyMesh}
    \cup {[vertices |-> t + 2, triangles |-> t, clean |-> c] :
             t \in 1..MaxTriangles, c \in BOOLEAN}

\* The post_processing section: enable (default False),
\* smoothing_iterations (default 0), decimation_target_triangles (default 0).
PostConfigs ==
    [enable : BOOLEAN, smoothing_iterations : 0..MaxIterations,
     decimation_target_triangles : 0..MaxTriangles]

\* What extraction can give for a grid of the given number of active
\* blocks: the empty mesh for a grid never activated.
ExtractedMeshes(blocks) == IF blocks = 0 THEN {EmptyMesh} ELSE Meshes

\* Whether vbg.extract_triangle_mesh can fail: not on a grid never
\* activated.
ExtractRaises(blocks) == IF blocks = 0 THEN {FALSE} ELSE BOOLEAN

PostProcessMeshDecimateFirst(mesh, config) ==
    IF mesh.vertices = 0
    THEN [mesh |-> mesh, ops |-> <<>>]
    ELSE LET target == config.decimation_target_triangles
             decimate == target > 0 /\ mesh.triangles > target
         IN  [mesh |-> [vertices |-> mesh.vertices,
                        triangles |-> IF decimate THEN target
                                      ELSE mesh.triangles,
                        clean |-> TRUE],
              ops |-> (IF decimate THEN <<"decimate">> ELSE <<>>)
                      \o (IF config.smoothing_iterations > 0
                          THEN <<"smooth">> ELSE <<>>)
                      \o <<"cleanup">>]

\* post_process_mesh, lines 237-276: the mesh it returns and the operations
\* it applied, in order.
PostProcessMesh(mesh, config) ==
    IF mesh.vertices = 0
    THEN [mesh |-> mesh, ops |-> <<>>]
    ELSE LET target == config.decimation_target_triangles
             decimate == target > 0 /\ mesh.triangles > target
         IN  [mesh |-> [vertices |-> mesh.vertices,
                        triangles |-> IF decimate THEN target
                                      ELSE mesh.triangles,
                        clean |-> TRUE],
              ops |-> (IF config.smoothing_iterations > 0
                       THEN <<"smooth">> ELSE <<>>)
                      \o (IF decimate THEN <<"decimate">> ELSE <<>>)
                      \o <<"cleanup">>]

\* extract_mesh, lines 228-235, on the mesh the grid gave.
ExtractMeshResult(mesh, config) ==
    IF config.enable
    THEN PostProcessMesh(mesh, config)
    ELSE [mesh |-> mesh, ops |-> <<>>]

\* What extract_mesh can return in a run: for the empty mesh and a mesh of
\* MaxTriangles triangles, with post-processing left at its defaults and
\* with every step of it switched on.
RunMeshes(blocks) ==
    ExtractedMeshes(blocks)
    \cap {EmptyMesh, [vertices |-> MaxTriangles + 2,
                      triangles |-> MaxTriangles, clean |-> FALSE]}

RunPostConfigs ==
    {[enable |-> FALSE, smoothing_iterations |-> 0,
      decimation_target_triangles |-> 0],
     [enable |-> TRUE, smoothing_iterations |-> MaxIterations,
      decimation_target_triangles |-> 1]}

MeshOutcomes(blocks) ==
    {ExtractMeshResult(m, config) : m \in RunMeshes(blocks),
                                    config \in RunPostConfigs}

\* No extract_mesh call is being followed alone.
PostIdle ==
    /\ post_pc = "off"
    /\ post_mesh = NoValue
    /\ post_config = NoValue
    /\ post_result = NoValue

\* No camera iteration is being followed alone.
IntrIdle ==
    /\ intr_pc = "off"
    /\ intr_depth_info = NoValue
    /\ intr_meta = NoValue
    /\ intr_result = NoValue
    /\ intr_used = NoValue

\* No pose row is being followed alone.
PoseIdle ==
    /\ pose_pc = "off"
    /\ pose_row = NoValue
    /\ pose_written = <<>>
    /\ pose_read = NoValue

\* No ReconstructionThread is being followed.
ThreadIdle ==
    /\ thread_pc = "off"
    /\ finished_calls = 0
    /\ error_calls = 0

\* No NerfStudioTrainer is being followed; __init__, lines 50-55.
TrainIdle ==
    /\ tr_is_running = FALSE
    /\ tr_process = 0
    /\ tr_procs = <<>>
    /\ tr_mon = <<>>
    /\ tr_completions = <<>>
    /\ tr_progress_calls = 0
    /\ tr_step_lines = 0
    /\ tr_last = "off"

\* No load_depth_descriptor call is being followed alone.
DescIdle ==
    /\ desc_pc = "off"
    /\ desc_rows = <<>>
    /\ desc_timestamp = 0
    /\ desc_result = Nothing

Init ==
    /\ has_open3d \in BOOLEAN
    /\ total_frames \in 0..MaxFrames
    /\ RunDefaults
    /\ DescIdle
    /\ TrainIdle
    /\ ThreadIdle
    /\ PoseIdle
    /\ IntrIdle
    /\ ExtrIdle
    /\ GridIdle
    /\ PostIdle

Running == {"entered", "loop", "camera"}
Terminal == {"returned", "raised"}

\* The call run_reconstruction(on_log, is_cancelled, camera, frame_interval,
\* start_frame, end_frame), lines 154-164.
Start ==
    /\ pc = "idle"
    /\ UNCHANGED aux_vars
    /\ \E c \in CameraModes, k \in 1..MaxInterval, s \in 0..(MaxFrames - 1),
          e \in {Nothing} \cup {<<n>> : n \in 0..MaxFrames},
          l \in BOOLEAN, p \in BOOLEAN :
          /\ camera' = c
          /\ frame_interval' = k
          /\ start_frame' = s
          /\ end_frame' = e
          /\ on_log' = l
          /\ is_cancelled' = p
    /\ pc' = "entered"
    /\ UNCHANGED <<export_env, mesh_out, has_open3d, total_frames, cancel_requested,
                   processing_frames, i, cam_idx, frame, processed_count,
                   failed_count, vbg_blocks, poll_log, cancel_seen,
                   frame_calls, progress_calls, load_calls, last_integrate,
                   last_outcome, extract_calls, exported, result, error>>

\* lines 168-192.
Prepare ==
    /\ pc = "entered"
    /\ UNCHANGED aux_vars
    /\ IF ~has_open3d
       THEN /\ pc' = "returned"
            /\ result' = NoValue
            /\ UNCHANGED <<processing_frames, i, processed_count,
                           failed_count>>
       ELSE /\ processing_frames' =
                   ProcessingFrames(total_frames, start_frame, end_frame,
                                    frame_interval)
            /\ i' = 0
            /\ processed_count' = 0
            /\ failed_count' = 0
            /\ pc' = "loop"
            /\ UNCHANGED result
    /\ UNCHANGED <<export_env, mesh_out, has_open3d, total_frames, camera,
                   frame_interval,
                   start_frame, end_frame, on_log, is_cancelled,
                   cancel_requested, cam_idx, frame, vbg_blocks, poll_log,
                   cancel_seen, frame_calls, progress_calls, load_calls,
                   last_integrate, last_outcome, extract_calls, exported,
                   error>>

\* ReconstructionThread.stop(), called by the GUI while the worker runs; the
\* flag it clears exists when the run was given the predicate of gui.py:79.
Stop ==
    /\ pc \in Running
    /\ UNCHANGED aux_vars
    /\ is_cancelled
    /\ ~cancel_requested
    /\ cancel_requested' = TRUE
    /\ UNCHANGED <<export_env, mesh_out, has_open3d, total_frames, pc, camera,
                   frame_interval,
                   start_frame, end_frame, on_log, is_cancelled,
                   processing_frames, i, cam_idx, frame, processed_count,
                   failed_count, vbg_blocks, poll_log, cancel_seen,
                   frame_calls, progress_calls, load_calls, last_integrate,
                   last_outcome, extract_calls, exported, result, error>>

\* lines 194-217: the head of one iteration of the frame loop: the poll of
\* the cancellation predicate, the callbacks, the resolution of the head pose.
\* The logs record what on_frame and on_progress receive when supplied.
LoopHead ==
    /\ pc = "loop"
    /\ UNCHANGED aux_vars
    /\ i < Len(processing_frames)
    /\ poll_log' = poll_log \o FramePolls(is_cancelled, i)
    /\ cancel_seen' = IF is_cancelled /\ cancel_requested
                         /\ cancel_seen = Nothing
                      THEN <<i>> ELSE cancel_seen
    /\ IF ShouldReturn(is_cancelled, cancel_requested)
       THEN /\ pc' = "returned"
            /\ result' = CancelledResult(processed_count, failed_count)
            /\ UNCHANGED <<frame_calls, progress_calls, frame, cam_idx,
                           error>>
       ELSE /\ frame_calls' =
                   Append(frame_calls,
                          CurrentRealIndex(start_frame, i, frame_interval))
            /\ progress_calls' =
                   Append(progress_calls,
                          Percent(i, Len(processing_frames)))
            /\ \E kind \in PoseKinds :
                   /\ frame' = kind
                   /\ IF PoseError(kind) # "None"
                      THEN /\ pc' = "raised"
                           /\ error' = [kind |-> PoseError(kind),
                                        stage |-> "pose", frame |-> i]
                           /\ UNCHANGED cam_idx
                      ELSE /\ pc' = "camera"
                           /\ cam_idx' = 1
                           /\ UNCHANGED error
            /\ UNCHANGED result
    /\ UNCHANGED <<export_env, mesh_out, has_open3d, total_frames, camera,
                   frame_interval,
                   start_frame, end_frame, on_log, is_cancelled,
                   cancel_requested, processing_frames, i, processed_count,
                   failed_count, vbg_blocks, load_calls, last_integrate,
                   last_outcome, extract_calls, exported>>

\* lines 219-351: one iteration of `for cam in cameras_to_process`.
CameraStep ==
    /\ pc = "camera"
    /\ UNCHANGED aux_vars
    /\ LET cams == CamerasToProcess(camera)
           cam == cams[cam_idx]
           f == processing_frames[i + 1]
       IN /\ \E in \in CameraInputs :
                 LET outcome == CameraOutcome(in.load, in.prep_raises, in.fx,
                                              frame, vbg_blocks, in.nb,
                                              in.integ_raises)
                     nb == in.nb
                 IN /\ last_outcome' = outcome
                    /\ processed_count' =
                           ProcessedAfter(processed_count, outcome)
                    /\ failed_count' = FailedAfter(failed_count, outcome)
                    /\ last_integrate' =
                           IF outcome \in CallsIntegrate
                           THEN <<f, cam>> ELSE last_integrate
                    /\ vbg_blocks' = IF outcome = "integrated"
                                     THEN vbg_blocks + nb ELSE vbg_blocks
          /\ load_calls' = Append(load_calls, <<f, ActualCam(cam)>>)
          /\ IF cam_idx < Len(cams)
             THEN /\ cam_idx' = cam_idx + 1
                  /\ UNCHANGED <<i, pc>>
             ELSE /\ cam_idx' = 0
                  /\ i' = i + 1
                  /\ pc' = "loop"
    /\ UNCHANGED <<export_env, mesh_out, has_open3d, total_frames, camera,
                   frame_interval,
                   start_frame, end_frame, on_log, is_cancelled,
                   cancel_requested, processing_frames, frame, poll_log,
                   cancel_seen, frame_calls, progress_calls, extract_calls,
                   exported, result, error>>

\* lines 353-403: the loop is exhausted; extract_mesh (which post-processes),
\* the export, the returned dictionary.  extract_mesh is outside any try.
ExtractMesh ==
    /\ pc = "loop"
    /\ UNCHANGED aux_vars
    /\ i = Len(processing_frames)
    /\ extract_calls' = extract_calls + 1
    /\ \E extract_raises \in ExtractRaises(vbg_blocks),
          m \in MeshOutcomes(vbg_blocks),
          save_mesh \in BOOLEAN, written \in BOOLEAN :
          IF extract_raises
          THEN /\ pc' = "raised"
               /\ error' = [kind |-> "Exception", stage |-> "extract",
                            frame |-> i]
               /\ UNCHANGED <<result, exported, export_env, mesh_out>>
          ELSE /\ pc' = "returned"
               /\ export_env' = <<save_mesh /\ written>>
               /\ mesh_out' = m
               /\ exported' = (on_log /\ save_mesh /\ written)
               /\ result' = CompletedResult(processed_count, failed_count,
                                OutputPath(on_log, save_mesh, written))
               /\ UNCHANGED error
    /\ UNCHANGED <<has_open3d, total_frames, camera, frame_interval,
                   start_frame, end_frame, on_log, is_cancelled,
                   cancel_requested, processing_frames, i, cam_idx, frame,
                   processed_count, failed_count, vbg_blocks, poll_log,
                   cancel_seen, frame_calls, progress_calls, load_calls,
                   last_integrate, last_outcome>>

Next ==
    \/ Start
    \/ Prepare
    \/ Stop
    \/ LoopHead
    \/ CameraStep
    \/ ExtractMesh

Spec == Init /\ [][Next]_vars

\* A further call of run_reconstruction on the same pipeline object after a
\* call has ended.  The arguments, locals and callbacks are those of the new
\* call; self.reconstructor, built once at line 30, is the one object.
CallAgain ==
    /\ pc \in Terminal
    /\ UNCHANGED aux_vars
    /\ pc' = "idle"
    /\ camera' = "left"
    /\ frame_interval' = 1
    /\ start_frame' = 0
    /\ end_frame' = Nothing
    /\ on_log' = FALSE
    /\ is_cancelled' = FALSE
    /\ cancel_requested' = FALSE
    /\ processing_frames' = <<>>
    /\ i' = 0
    /\ cam_idx' = 0
    /\ frame' = "ok"
    /\ processed_count' = 0
    /\ failed_count' = 0
    /\ poll_log' = <<>>
    /\ cancel_seen' = Nothing
    /\ frame_calls' = <<>>
    /\ progress_calls' = <<>>
    /\ load_calls' = <<>>
    /\ last_integrate' = Nothing
    /\ last_outcome' = "none"
    /\ extract_calls' = 0
    /\ exported' = FALSE
    /\ result' = NoValue
    /\ error' = NoValue
    /\ export_env' = Nothing
    /\ mesh_out' = NoValue
    /\ UNCHANGED <<has_open3d, total_frames, vbg_blocks>>

NextRuns ==
    \/ Next
    \/ CallAgain

\* Several calls of run_reconstruction on one pipeline object.
SpecRuns == Init /\ [][NextRuns]_vars

\* ------------------------------------------------------------ properties

NCams == Len(CamerasToProcess(camera))
Last(s) == s[Len(s)]
Completed == pc = "returned" /\ result # NoValue
ReturnedNone == pc = "returned" /\ result = NoValue
Failed == pc = "raised"
\* Frames for which process_quest_frame has been called.
LoadedFrames == {load_calls[k][1] : k \in 1..Len(load_calls)}

\* C1: once the cancellation predicate has returned true at a poll, the run
\* has returned None: no frame is loaded or announced at or after the polled
\* position, extract_mesh was never called, no file was exported.
C1_CancelHalts ==
    cancel_seen # Nothing =>
        /\ pc = "returned"
        /\ result = NoValue
        /\ extract_calls = 0
        /\ ~exported
        /\ Len(frame_calls) = cancel_seen[1]
        /\ Len(load_calls) = cancel_seen[1] * NCams

\* C1 witness: a run cancelled after it had integrated a frame.
C1_Witness ==
    /\ cancel_seen # Nothing
    /\ pc = "returned"
    /\ processed_count >= 1
    /\ vbg_blocks >= 1

\* C2 (as claimed): no failure of a single frame (pose resolution included)
\* makes run_reconstruction raise.
C2_FrameFailuresIsolated == ~(pc = "raised" /\ error.stage = "pose")

\* C3 (as claimed): when the integration of a frame exceeds the capacity of
\* the grid the run fails with that error.
C3_CapacityFatal ==
    last_outcome = "capacity" => (pc = "raised" /\ error.stage = "integrate")

\* C4 (as claimed): a camera iteration that stops at the invalid-pose check
\* does not integrate and adds one to the failure counter.
C4_InvalidPoseCounted ==
    [][(load_calls' # load_calls /\ last_outcome' = "skipped_pose") =>
          (failed_count' = failed_count + 1
           /\ last_integrate' = last_integrate)]_vars

\* C5: the work of the loop is done frame after frame in the order of the
\* filtered sequence, every selected camera of a frame before the next
\* frame: the k-th process_quest_frame call is for frame (k-1) div NCams of
\* processing_frames and camera (k-1) mod NCams, frame indices never
\* decrease, and each integrate_frame call is for the frame and camera just
\* loaded, with a frame index not below that of the previous call.
C5_StateOrder ==
    /\ \A k \in 1..Len(load_calls) :
          /\ load_calls[k][1] = processing_frames[((k - 1) \div NCams) + 1]
          /\ load_calls[k][2] =
                ActualCam(CamerasToProcess(camera)[((k - 1) % NCams) + 1])
          /\ k > 1 => load_calls[k - 1][1] <= load_calls[k][1]
    /\ pc = "loop" => Len(load_calls) = i * NCams
    /\ pc = "camera" => Len(load_calls) = i * NCams + cam_idx - 1

C5_InOrder ==
    /\ []C5_StateOrder
    /\ [][last_integrate' # last_integrate =>
            /\ load_calls' # load_calls
            /\ last_integrate'[1] = Last(load_calls')[1]
            /\ ActualCam(last_integrate'[2]) = Last(load_calls')[2]
            /\ last_integrate # Nothing =>
                   last_integrate[1] <= last_integrate'[1]]_vars

\* C5 witness: both cameras of a second frame integrated after the first.
C5_Witness ==
    /\ camera = "both"
    /\ Len(load_calls) >= 4
    /\ processed_count >= 3
    /\ last_integrate = <<processing_frames[2], "right">>

\* C6: a supplied predicate is called exactly once per iteration of the
\* frame loop, at its start: poll k is made at i = k when k frames have been
\* announced and all their cameras visited, and a run stopped by
\* cancellation has visited every camera of every frame it started.
C6_PollState ==
    /\ ~is_cancelled => poll_log = <<>>
    /\ is_cancelled =>
          /\ poll_log = [k \in 1..Len(poll_log) |-> k - 1]
          /\ Len(poll_log) = Len(frame_calls)
                              + (IF cancel_seen # Nothing THEN 1 ELSE 0)
    /\ cancel_seen # Nothing => Len(load_calls) = Len(frame_calls) * NCams

C6_PollOncePerFrame ==
    /\ []C6_PollState
    /\ [][poll_log' # poll_log =>
            /\ pc = "loop"
            /\ Len(poll_log') = Len(poll_log) + 1
            /\ Last(poll_log') = i
            /\ Len(frame_calls) = i
            /\ Len(progress_calls) = i
            /\ Len(load_calls) = i * NCams
            /\ load_calls' = load_calls
            /\ last_integrate' = last_integrate]_vars

\* C6 witness: a two-camera run polled at least twice and then cancelled.
C6_Witness ==
    /\ is_cancelled
    /\ camera = "both"
    /\ Len(poll_log) >= 2
    /\ cancel_seen # Nothing

\* C7 (as claimed): every progress value is in 0..100, the values never
\* decrease, and a run over at least one frame that was not cancelled has
\* reported 100 last.
C7_Progress ==
    /\ \A k \in 1..Len(progress_calls) :
          /\ progress_calls[k] \in 0..100
          /\ k > 1 => progress_calls[k - 1] <= progress_calls[k]
    /\ (pc \in Terminal /\ cancel_seen = Nothing
        /\ Len(processing_frames) >= 1) =>
          (progress_calls # <<>> /\ Last(progress_calls) = 100)

\* The index part of C8: the k-th on_frame call receives the absolute index
\* of the k-th frame of the filtered sequence, start_frame + (k-1)*interval.
C8_Indices ==
    /\ Len(frame_calls) <= Len(processing_frames)
    /\ \A k \in 1..Len(frame_calls) :
          /\ frame_calls[k] = processing_frames[k]
          /\ frame_calls[k] = start_frame + (k - 1) * frame_interval
    /\ pc = "camera" => Len(frame_calls) = i + 1
    /\ pc = "loop" => Len(frame_calls) = i

\* C8 (as claimed): on_frame receives the absolute index of the frame, and
\* at the time of the call the frame has been processed.
C8_CalledAfterProcessing ==
    /\ []C8_Indices
    /\ [][frame_calls' # frame_calls =>
            Last(frame_calls') \in LoadedFrames]_vars

\* C8 (amended): on_frame receives the absolute index of the frame, once
\* per frame, and the call precedes the processing of that frame.
C8_CalledBeforeProcessing ==
    /\ []C8_Indices
    /\ [][frame_calls' # frame_calls =>
            /\ Len(frame_calls') = Len(frame_calls) + 1
            /\ Last(frame_calls') \notin LoadedFrames
            /\ load_calls' = load_calls
            /\ last_integrate' = last_integrate]_vars

\* C8 witness: the second frame of a stride-2 run announced, not yet loaded.
C8_Witness ==
    /\ frame_interval = 2
    /\ pc = "camera"
    /\ cam_idx = 1
    /\ frame_calls = <<start_frame, start_frame + 2>>
    /\ LoadedFrames = {start_frame}

\* C9 (as claimed): a run cancelled at the poll after K frames has
\* processed_count <= K and did not raise.
C9_ProcessedAtMostK ==
    cancel_seen # Nothing =>
        (processed_count <= cancel_seen[1] /\ pc # "raised")

\* C9 (amended): a run cancelled at the poll after K frames has
\* processed_count <= K * (number of selected cameras) and did not raise.
C9_ProcessedAtMostKCams ==
    cancel_seen # Nothing =>
        (processed_count <= cancel_seen[1] * NCams /\ pc # "raised")

\* C9 witness: camera 'both' cancelled after one frame, both integrated.
C9_Witness ==
    /\ cancel_seen = <<1>>
    /\ camera = "both"
    /\ processed_count = 2
    /\ Len(processing_frames) > 1

\* C10: a run goes idle -> running -> returned or raised and stays there;
\* a returned dictionary holds the mesh and the two counters; extract_mesh
\* is called at most once, exactly when the loop was exhausted with no poll
\* having returned true, and ends the run (nothing is integrated after it);
\* a run that returned None called no extraction; a raised run has an error
\* and no result.
C10_Outcome ==
    /\ pc \in {"idle"} \cup Running \cup Terminal
    /\ extract_calls \in {0, 1}
    /\ extract_calls = 1 <=>
          (/\ pc \in Terminal
           /\ has_open3d
           /\ cancel_seen = Nothing
           /\ i = Len(processing_frames)
           /\ ~(pc = "raised" /\ error.stage = "pose"))
    /\ Completed =>
          /\ result.mesh = "mesh"
          /\ result.processed_frames = processed_count
          /\ result.failed_frames = failed_count
          /\ extract_calls = 1
          /\ error = NoValue
    /\ ReturnedNone =>
          /\ extract_calls = 0
          /\ cancel_seen # Nothing \/ ~has_open3d
          /\ error = NoValue
    /\ Failed => (error # NoValue /\ result = NoValue)
    /\ pc \notin Terminal => (error = NoValue /\ result = NoValue)

C11_AllPairsCounted ==
    Completed =>
        result.processed_frames + result.failed_frames = Len(load_calls)

\* The indices C12 names: start_frame + k*frame_interval, k >= 0, not above
\* min(end_frame, N-1), an omitted end_frame meaning N-1.
SelectedIndices ==
    {n \in 0..(total_frames - 1) :
        /\ n >= start_frame
        /\ (n - start_frame) % frame_interval = 0
        /\ end_frame # Nothing => n <= end_frame[1]}

\* Frames whose iteration has begun.
VisitedFrames == {processing_frames[k] : k \in 1..Len(frame_calls)}

RotComponents == {0, 1}

\* Values of the rotation the method reads at lines 120-122: the camera's
\* 'rotation' entry, else its 'rotation_quat' entry, else [0, 0, 0, 1].
Rotations == UNION {[1..n -> RotComponents] : n \in 0..MaxRotLen}

\* Lines 111-117 for a camera without a 'translation' entry, in millimetres.
DefaultTranslation(cam) ==
    <<IF cam = "left" THEN -32 ELSE 32, 0, 0>>

\* scipy's Rotation.from_quat refuses a quaternion of zero norm.
ZeroNorm(q) == \A k \in 1..Len(q) : q[k] = 0

\* Lines 124-152.  A rotation of four or more components is read through
\* its first four; a shorter one gives np.eye(3).
GetCameraExtrinsics(cam, rotation) ==
    IF Len(rotation) >= 4
    THEN LET q == <<0 - rotation[1], 0 - rotation[2], rotation[3],
                    rotation[4]>>
         IN  IF ZeroNorm(q)
             THEN [kind |-> "ValueError", source |-> "from_quat",
                   quat |-> q, translation |-> <<>>]
             ELSE [kind |-> "matrix", source |-> "from_quat",
                   quat |-> q, translation |-> DefaultTranslation(cam)]
    ELSE [kind |-> "matrix", source |-> "eye", quat |-> <<0, 0, 0, 1>>,
          translation |-> DefaultTranslation(cam)]

InitExtr ==
    /\ has_open3d = FALSE
    /\ total_frames = 0
    /\ RunDefaults
    /\ DescIdle
    /\ TrainIdle
    /\ ThreadIdle
    /\ PoseIdle
    /\ IntrIdle
    /\ ext_pc = "ready"
    /\ ext_camera \in {"left", "right", "color"}
    /\ ext_rotation \in Rotations
    /\ ext_result = NoValue
    /\ GridIdle
    /\ PostIdle

ExtrCall ==
    /\ ext_pc = "ready"
    /\ ext_pc' = "done"
    /\ ext_result' = GetCameraExtrinsics(ext_camera, ext_rotation)
    /\ UNCHANGED <<run_vars, desc_vars,
                   train_vars,
                   thread_vars,
                   pose_vars,
                   intr_vars,
                   grid_vars, post_vars, ext_camera,
                   ext_rotation>>

NextExtr == ExtrCall

\* One call of get_camera_extrinsics on each camera entry.
SpecExtr == InitExtr /\ [][NextExtr]_vars

\* ------------------------------------- integrate_frame on one grid

\* Line 156: floor(point / block_size) of every point, duplicates kept.
BlockCoords(points) == [k \in 1..Len(points) |-> points[k] \div BlockSize]

CoordSet(coords) == {coords[k] : k \in 1..Len(coords)}

Present(keys, c) == \E n \in 1..Len(keys) : keys[n] = c

IndexOf(keys, c) == CHOOSE n \in 1..Len(keys) : keys[n] = c

RECURSIVE ActivateAlwaysAllocates(_, _, _)
ActivateAlwaysAllocates(grid, coords, capacity) ==
    IF coords = <<>>
    THEN [keys |-> grid.keys, blocks |-> grid.blocks, indices |-> <<>>,
          ok |-> TRUE]
    ELSE IF Len(grid.keys) >= capacity
         THEN [keys |-> grid.keys, blocks |-> grid.blocks,
               indices |-> <<>>, ok |-> FALSE]
         ELSE LET g2 == [keys |-> Append(grid.keys, Head(coords)),
                         blocks |-> Append(grid.blocks, EmptyBlock)]
                  r == ActivateAlwaysAllocates(g2, Tail(coords), capacity)
              IN  [r EXCEPT !.indices = <<Len(g2.keys)>> \o @]

RECURSIVE ActivateUnbounded(_, _, _)
ActivateUnbounded(grid, coords, capacity) ==
    IF coords = <<>>
    THEN [keys |-> grid.keys, blocks |-> grid.blocks, indices |-> <<>>,
          ok |-> TRUE]
    ELSE LET c == Head(coords)
         IN  IF Present(grid.keys, c)
             THEN LET r == ActivateUnbounded(grid, Tail(coords), capacity)
                  IN  [r EXCEPT !.indices = <<IndexOf(grid.keys, c)>> \o @]
             ELSE LET g2 == [keys |-> Append(grid.keys, c),
                             blocks |-> Append(grid.blocks, EmptyBlock)]
                      r == ActivateUnbounded(g2, Tail(coords), capacity)
                  IN  [r EXCEPT !.indices = <<Len(g2.keys)>> \o @]

\* hashmap.activate(coords): insert-if-absent, coordinate by coordinate.  A
\* present coordinate yields its index; an absent one takes the next free
\* block, and GridCapacityExceeded (ok = FALSE) when there is none.
RECURSIVE Activate(_, _, _)
Activate(grid, coords, capacity) ==
    IF coords = <<>>
    THEN [keys |-> grid.keys, blocks |-> grid.blocks, indices |-> <<>>,
          ok |-> TRUE]
    ELSE LET c == Head(coords)
         IN  IF Present(grid.keys, c)
             THEN LET r == Activate(grid, Tail(coords), capacity)
                  IN  [r EXCEPT !.indices = <<IndexOf(grid.keys, c)>> \o @]
             ELSE IF Len(grid.keys) >= capacity
                  THEN [keys |-> grid.keys, blocks |-> grid.blocks,
                        indices |-> <<>>, ok |-> FALSE]
                  ELSE LET g2 == [keys |-> Append(grid.keys, c),
                                  blocks |-> Append(grid.blocks, EmptyBlock)]
                           r == Activate(g2, Tail(coords), capacity)
                       IN  [r EXCEPT !.indices = <<Len(g2.keys)>> \o @]

Abs(n) == IF n < 0 THEN 0 - n ELSE n

RECURSIVE Gcd(_, _)
Gcd(a, b) == IF b = 0 THEN a ELSE Gcd(b, a % b)

\* The fraction num / den (den > 0) in lowest terms.
Fraction(num, den) ==
    LET g == Gcd(Abs(num), den) IN <<num \div g, den \div g>>

AverageWeightFirst(x, w, u, wobs) ==
    Fraction(x[1] * (w + wobs) * u[2] + u[1] * wobs * x[2],
             x[2] * u[2] * (w + wobs + wobs))

AverageOverwrite(x, w, u, wobs) == Fraction(u[1], u[2])

\* (x * w + u * w_obs) / (w + w_obs) for fractions x and u.
Average(x, w, u, wobs) ==
    Fraction(x[1] * w * u[2] + u[1] * wobs * x[2], x[2] * u[2] * (w + wobs))

\* Steps (4) and (5): a voxel is updated when it projects to a pixel with
\* valid depth and sdf > -trunc.
Updates(o) == o.valid /\ o.sdf > 0 - Trunc

\* tsdf_update = min(sdf, trunc) / trunc.
TsdfUpdate(o) == Fraction(Min(o.sdf, Trunc), Trunc)

UpdateVoxelUncapped(x, o, wobs, wmax) ==
    IF Updates(o)
    THEN [tsdf |-> Average(x.tsdf, x.weight, TsdfUpdate(o), wobs),
          color |-> Average(x.color, x.weight, <<o.c, 1>>, wobs),
          weight |-> x.weight + wobs]
    ELSE x

\* Step (6) on one voxel.
UpdateVoxel(x, o, wobs, wmax) ==
    IF Updates(o)
    THEN [tsdf |-> Average(x.tsdf, x.weight, TsdfUpdate(o), wobs),
          color |-> Average(x.color, x.weight, <<o.c, 1>>, wobs),
          weight |-> Min(x.weight + wobs, wmax)]
    ELSE x

\* vbg.integrate(block_coords, ...): every voxel of every block named in
\* block_coords is updated once.
Integrate(grid, coords, obs, wobs, wmax) ==
    [keys |-> grid.keys,
     blocks |-> [n \in 1..Len(grid.keys) |->
                   IF grid.keys[n] \in CoordSet(coords)
                   THEN [v \in Voxels |->
                           UpdateVoxel(grid.blocks[n][v], obs[v], wobs, wmax)]
                   ELSE grid.blocks[n]]]

\* Whether integrating the frame clips some weight to the cap.
Clips(grid, coords, obs, wobs, wmax) ==
    \E n \in 1..Len(grid.keys), v \in Voxels :
        /\ grid.keys[n] \in CoordSet(coords)
        /\ Updates(obs[v])
        /\ grid.blocks[n][v].weight + wobs > wmax

Grid == [keys |-> g_keys, blocks |-> g_blocks]

Integrated == {f \in GridFrames : g_count[f] > 0}

RECURSIVE SumCount(_, _)
SumCount(count, fs) ==
    IF fs = {} THEN 0
    ELSE LET f == CHOOSE f \in fs : TRUE
         IN  count[f] + SumCount(count, fs \ {f})

IntegratedCount == SumCount(g_count, GridFrames)

\* A grid as QuestReconstructor.__init__ creates it.
InitGrid ==
    /\ has_open3d = TRUE
    /\ total_frames = 0
    /\ RunDefaults
    /\ DescIdle
    /\ TrainIdle
    /\ ThreadIdle
    /\ PoseIdle
    /\ IntrIdle
    /\ ExtrIdle
    /\ PostIdle
    /\ g_pc = "open"
    /\ g_wmax \in 1..MaxWeightCap
    /\ g_capacity \in 1..MaxCapacity
    /\ g_keys = <<>>
    /\ g_blocks = <<>>
    /\ g_frame = CHOOSE f \in GridFrames : TRUE
    /\ g_indices = <<>>
    /\ g_count = [f \in GridFrames |-> 0]
    /\ g_capped = FALSE

\* integrate_frame, lines 141-173: the block coordinates of the frame's
\* point cloud are activated.
GridActivate ==
    /\ g_pc = "open"
    /\ IntegratedCount < MaxGridFrames
    /\ \E f \in GridFrames :
          LET r == Activate(Grid, BlockCoords(f.points), g_capacity)
          IN  /\ g_frame' = f
              /\ g_keys' = r.keys
              /\ g_blocks' = r.blocks
              /\ g_indices' = r.indices
              /\ g_pc' = IF r.ok THEN "activated" ELSE "failed"
    /\ UNCHANGED <<run_vars, desc_vars,
                   train_vars,
                   thread_vars,
                   pose_vars,
                   intr_vars,
                   ext_vars, post_vars, g_wmax, g_capacity, g_count,
                   g_capped>>

\* integrate_frame, lines 200-209: the frame is integrated into the blocks
\* of its block coordinates.
GridIntegrate ==
    /\ g_pc = "activated"
    /\ LET coords == BlockCoords(g_frame.points)
           r == Integrate(Grid, coords, g_frame.obs, WObs, g_wmax)
       IN  /\ g_blocks' = r.blocks
           /\ g_capped' = (g_capped \/
                           Clips(Grid, coords, g_frame.obs, WObs, g_wmax))
    /\ g_count' = [g_count EXCEPT ![g_frame] = @ + 1]
    /\ g_pc' = "open"
    /\ UNCHANGED <<run_vars, desc_vars,
                   train_vars,
                   thread_vars,
                   pose_vars,
                   intr_vars,
                   ext_vars, post_vars, g_wmax, g_capacity, g_keys,
                   g_frame,
                   g_indices>>

NextGrid ==
    \/ GridActivate
    \/ GridIntegrate

\* A sequence of integrate_frame calls on one QuestReconstructor.
SpecGrid == InitGrid /\ [][NextGrid]_vars

\* --------------------------------------------- extract_mesh alone

InitPost ==
    /\ has_open3d = TRUE
    /\ total_frames = 0
    /\ RunDefaults
    /\ DescIdle
    /\ TrainIdle
    /\ ThreadIdle
    /\ PoseIdle
    /\ IntrIdle
    /\ ExtrIdle
    /\ GridIdle
    /\ post_pc = "ready"
    /\ post_mesh \in Meshes
    /\ post_config \in PostConfigs
    /\ post_result = NoValue

\* extract_mesh, lines 222-235, after the grid gave post_mesh.
PostCall ==
    /\ post_pc = "ready"
    /\ post_pc' = "done"
    /\ post_result' = ExtractMeshResult(post_mesh, post_config)
    /\ UNCHANGED <<run_vars, desc_vars,
                   train_vars,
                   thread_vars,
                   pose_vars,
                   intr_vars,
                   ext_vars, grid_vars, post_mesh, post_config>>

NextPost == PostCall

\* One call of extract_mesh on each mesh and configuration.
SpecPost == InitPost /\ [][NextPost]_vars

\* ------------------------------- get_camera_intrinsics and its use

\* Tangents are counted in hundredths, so the 0.01 of line 70 is 1.
FovEpsilon == 1
FocalFloor == 300           \* line 75: fx_temp > 300 and fy_temp > 300
DefaultFocal == 867         \* lines 86-87
DefaultCenter == 640        \* lines 88-89

Sizes == {0, 600, 700, 800}
Tangents == {0, 1, 100}

\* The rows load_depth_descriptor returns, without near_z and far_z.
DepthInfos ==
    [width : Sizes, height : Sizes, fov_left : Tangents,
     fov_right : Tangents, fov_top : Tangents, fov_down : Tangents]

\* The 'intrinsics' entry of camera_metadata[camera], or none.
MetaIntrinsics ==
    {NoValue} \cup
    {[fx |-> <<f, 1>>, fy |-> <<f, 1>>, cx |-> <<DefaultCenter, 1>>,
      cy |-> <<DefaultCenter, 1>>] : f \in {144, 500}}

\* a < b, a <= b for fractions with positive denominators.
Less(a, b) == a[1] * b[2] < b[1] * a[2]

\* compute_depth_camera_params: fx = width / (fov_left + fov_right),
\* fy = height / (fov_top + fov_bottom), the principal point at the
\* left and top tangent fractions of the buffer.
ComputeDepthCameraParams(l, r, t, b, w, h) ==
    [fx |-> Fraction(w * 100, l + r), fy |-> Fraction(h * 100, t + b),
     cx |-> Fraction(w * l, l + r), cy |-> Fraction(h * t, t + b)]

\* Lines 81-89: the metadata entry, else the fixed defaults.
FallbackIntrinsics(meta) ==
    IF meta # NoValue THEN meta
    ELSE [fx |-> <<DefaultFocal, 1>>, fy |-> <<DefaultFocal, 1>>,
          cx |-> <<DefaultCenter, 1>>, cy |-> <<DefaultCenter, 1>>]

\* Lines 70-77: whether the derivation is made and kept.
ComputedFromFov(d) ==
    /\ d # NoValue
    /\ d.width > 0 /\ d.height > 0
    /\ d.fov_left + d.fov_right > FovEpsilon
    /\ d.fov_top + d.fov_down > FovEpsilon
    /\ LET p == ComputeDepthCameraParams(d.fov_left, d.fov_right,
                    d.fov_top, d.fov_down, d.width, d.height)
       IN Less(<<FocalFloor, 1>>, p.fx) /\ Less(<<FocalFloor, 1>>, p.fy)

GetCameraIntrinsics(meta, d) ==
    IF ComputedFromFov(d)
    THEN [computed_from_fov |-> TRUE,
          k |-> ComputeDepthCameraParams(d.fov_left, d.fov_right,
                    d.fov_top, d.fov_down, d.width, d.height)]
    ELSE [computed_from_fov |-> FALSE, k |-> FallbackIntrinsics(meta)]

InitIntr ==
    /\ has_open3d = TRUE
    /\ total_frames = 0
    /\ RunDefaults
    /\ DescIdle
    /\ TrainIdle
    /\ ThreadIdle
    /\ PoseIdle
    /\ ExtrIdle
    /\ GridIdle
    /\ PostIdle
    /\ intr_pc = "loaded"
    /\ intr_depth_info \in {NoValue} \cup DepthInfos
    /\ intr_meta \in MetaIntrinsics
    /\ intr_result = NoValue
    /\ intr_used = NoValue

\* Line 235.
IntrGet ==
    /\ intr_pc = "loaded"
    /\ intr_result' = GetCameraIntrinsics(intr_meta, intr_depth_info)
    /\ intr_pc' = "got"
    /\ UNCHANGED <<run_vars, desc_vars,
                   train_vars,
                   thread_vars,
                   pose_vars,
                   ext_vars, grid_vars, post_vars,
                   intr_depth_info, intr_meta, intr_used>>

\* Lines 325-345: the two checks before integrate_frame, and the call.
IntrUse ==
    /\ intr_pc = "got"
    /\ \E pose_valid \in BOOLEAN :
           intr_used' =
               [pose_valid |-> pose_valid,
                outcome |->
                    IF Less(intr_result.k.fx, <<SuspiciousFx, 1>>)
                    THEN "skipped_intrinsics"
                    ELSE IF ~pose_valid THEN "skipped_pose"
                    ELSE "integrated",
                intrinsics |-> intr_result.k]
    /\ intr_pc' = "done"
    /\ UNCHANGED <<run_vars, desc_vars,
                   train_vars,
                   thread_vars,
                   pose_vars,
                   ext_vars, grid_vars, post_vars,
                   intr_depth_info, intr_meta, intr_result>>

NextIntr == IntrGet \/ IntrUse

SpecIntr == InitIntr /\ [][NextIntr]_vars

\* ------------------------------------ the head rotation, csv to use

QuatComponents == {-1, 0, 1}

PoseRows ==
    [rot_w : QuatComponents, rot_x : QuatComponents,
     rot_y : QuatComponents, rot_z : QuatComponents]

\* adapt_quest_data, lines 41-46: the list written as 'rotation'.
AdaptRotation(row) == <<row.rot_w, row.rot_x, row.rot_y, row.rot_z>>

\* Lines 208-213: R.from_quat takes the list as [x, y, z, w].
FromQuat(rot) == [x |-> rot[1], y |-> rot[2], z |-> rot[3], w |-> rot[4]]

InitPose ==
    /\ has_open3d = TRUE
    /\ total_frames = 0
    /\ RunDefaults
    /\ DescIdle
    /\ TrainIdle
    /\ ThreadIdle
    /\ ExtrIdle
    /\ GridIdle
    /\ PostIdle
    /\ IntrIdle
    /\ pose_pc = "csv"
    /\ pose_row \in PoseRows
    /\ pose_written = <<>>
    /\ pose_read = NoValue

\* quest_adapter.py lines 33-47 and 74-77.
PoseAdapt ==
    /\ pose_pc = "csv"
    /\ pose_written' = AdaptRotation(pose_row)
    /\ pose_pc' = "json"
    /\ UNCHANGED <<run_vars, desc_vars,
                   train_vars,
                   thread_vars,
                   ext_vars, grid_vars, post_vars, intr_vars,
                   pose_row, pose_read>>

\* quest_reconstruction_pipeline.py lines 210-213.
PoseRead ==
    /\ pose_pc = "json"
    /\ pose_read' = FromQuat(pose_written)
    /\ pose_pc' = "read"
    /\ UNCHANGED <<run_vars, desc_vars,
                   train_vars,
                   thread_vars,
                   ext_vars, grid_vars, post_vars, intr_vars,
                   pose_row, pose_written>>

NextPose == PoseAdapt \/ PoseRead

SpecPose == InitPose /\ [][NextPose]_vars

\* ------------------------------------------- ReconstructionThread.run

\* gui.py lines 59-72: the thread is inside run, the pipeline is built and
\* run_reconstruction is about to be called.
InitThread ==
    /\ has_open3d \in BOOLEAN
    /\ total_frames \in 0..MaxFrames
    /\ RunDefaults
    /\ DescIdle
    /\ TrainIdle
    /\ ExtrIdle
    /\ GridIdle
    /\ PostIdle
    /\ IntrIdle
    /\ PoseIdle
    /\ thread_pc = "running"
    /\ finished_calls = 0
    /\ error_calls = 0

\* gui.py line 87: `if result and result.get('mesh')`.
HasMesh(res) == res # NoValue /\ res.mesh = "mesh"

\* gui.py lines 87-101: what run does once run_reconstruction has returned
\* or raised.  on_finished is called inside the try, so an exception it
\* raises reaches the handler of line 97, which calls on_error.
ThreadFinish ==
    /\ thread_pc = "running"
    /\ pc \in Terminal
    /\ thread_pc' = "done"
    /\ IF pc = "returned" /\ HasMesh(result)
       THEN \E on_finished_raises \in BOOLEAN :
                /\ finished_calls' = finished_calls + 1
                /\ error_calls' =
                       IF on_finished_raises THEN error_calls + 1
                       ELSE error_calls
       ELSE /\ error_calls' = error_calls + 1
            /\ UNCHANGED finished_calls
    /\ UNCHANGED <<run_vars, desc_vars,
                   train_vars,
                   ext_vars, grid_vars, post_vars, intr_vars,
                   pose_vars>>

NextThread ==
    \/ Next
    \/ ThreadFinish

SpecThread == InitThread /\ [][NextThread]_vars

\* ------------------------------------------------- NerfStudioTrainer

\* What a line of output is to _monitor_training: empty after strip(), a
\* line without a step number, a line with one.
LineKinds == {"blank", "text", "step"}

Outputs == UNION {[1..n -> LineKinds] : n \in 0..MaxLines}

\* _parse_progress_line is called at line 189 but the class defines no
\* such method: its intended body, lines 229-262, follows the return of
\* _get_python_path without a def line.  The call raises AttributeError.
ParseProgressLine(kind) == "AttributeError"

InitTrain ==
    /\ has_open3d = TRUE
    /\ total_frames = 0
    /\ RunDefaults
    /\ DescIdle
    /\ ExtrIdle
    /\ GridIdle
    /\ PostIdle
    /\ IntrIdle
    /\ PoseIdle
    /\ ThreadIdle
    /\ tr_is_running = FALSE
    /\ tr_process = 0
    /\ tr_procs = <<>>
    /\ tr_mon = <<>>
    /\ tr_completions = <<>>
    /\ tr_progress_calls = 0
    /\ tr_step_lines = 0
    /\ tr_last = "none"

TrainOthers == <<run_vars, ext_vars, grid_vars, post_vars, intr_vars,
                 pose_vars, thread_vars, desc_vars>>

\* start_training, lines 84-170.  can_launch: the checks of lines 88-117
\* pass and Popen does not raise.  out: what the subprocess will print.
StartTraining ==
    /\ \E can_launch \in BOOLEAN, out \in Outputs :
           IF tr_is_running \/ ~can_launch
           THEN /\ tr_last' = "start_false"
                /\ UNCHANGED <<tr_is_running, tr_process, tr_procs, tr_mon>>
           ELSE /\ Len(tr_procs) < MaxProcs
                /\ tr_procs' = Append(tr_procs,
                       [alive |-> TRUE, code |-> -1, out |-> out,
                        observed |-> FALSE])
                /\ tr_process' = Len(tr_procs) + 1
                /\ tr_is_running' = TRUE
                /\ tr_mon' = Append(tr_mon, [pc |-> "start", stdout |-> 0])
                /\ tr_last' = "start_true"
    /\ UNCHANGED <<tr_completions, tr_progress_calls, tr_step_lines>>
    /\ UNCHANGED TrainOthers

\* The subprocess ends by itself, with some exit code.
ProcessExit ==
    /\ \E n \in 1..Len(tr_procs), code \in {0, 1} :
           /\ tr_procs[n].alive
           /\ tr_procs' = [tr_procs EXCEPT ![n].alive = FALSE,
                                            ![n].code = code]
    /\ UNCHANGED <<tr_is_running, tr_process, tr_mon, tr_completions,
                   tr_progress_calls, tr_step_lines, tr_last>>
    /\ UNCHANGED TrainOthers

\* _monitor_training, lines 174-178: the thread takes self.process.stdout.
MonitorBegin ==
    /\ \E t \in 1..Len(tr_mon) :
           /\ tr_mon[t].pc = "start"
           /\ tr_mon' = [tr_mon EXCEPT ![t].pc = "reading",
                                       ![t].stdout = tr_process]
    /\ UNCHANGED <<tr_is_running, tr_process, tr_procs, tr_completions,
                   tr_progress_calls, tr_step_lines, tr_last>>
    /\ UNCHANGED TrainOthers

\* Lines 178-195 for one line, and the handler of lines 215-217.
MonitorLine ==
    /\ \E t \in 1..Len(tr_mon) :
           /\ tr_mon[t].pc = "reading"
           /\ tr_procs[tr_mon[t].stdout].out # <<>>
           /\ LET n == tr_mon[t].stdout
                  line == Head(tr_procs[n].out)
              IN  /\ tr_procs' = [tr_procs EXCEPT
                                     ![n].out = Tail(tr_procs[n].out)]
                  /\ tr_step_lines' = IF line = "step"
                                      THEN tr_step_lines + 1
                                      ELSE tr_step_lines
                  /\ IF line = "blank"
                     THEN UNCHANGED <<tr_mon, tr_is_running,
                                      tr_progress_calls>>
                     ELSE IF ParseProgressLine(line) = "AttributeError"
                     THEN /\ tr_mon' = [tr_mon EXCEPT ![t].pc = "error"]
                          /\ tr_is_running' = FALSE
                          /\ UNCHANGED tr_progress_calls
                     ELSE /\ tr_progress_calls' =
                                 IF ParseProgressLine(line) = "info"
                                 THEN tr_progress_calls + 1
                                 ELSE tr_progress_calls
                          /\ UNCHANGED <<tr_mon, tr_is_running>>
    /\ UNCHANGED <<tr_process, tr_completions, tr_last>>
    /\ UNCHANGED TrainOthers

\* Line 178: the loop ends when the pipe is empty and closed.
MonitorEof ==
    /\ \E t \in 1..Len(tr_mon) :
           /\ tr_mon[t].pc = "reading"
           /\ tr_procs[tr_mon[t].stdout].out = <<>>
           /\ ~tr_procs[tr_mon[t].stdout].alive
           /\ tr_mon' = [tr_mon EXCEPT ![t].pc = "waiting"]
    /\ UNCHANGED <<tr_is_running, tr_process, tr_procs, tr_completions,
                   tr_progress_calls, tr_step_lines, tr_last>>
    /\ UNCHANGED TrainOthers

\* Lines 198-208: self.process.wait() on what self.process is by now, then
\* the flag and the callback.
MonitorWait ==
    /\ \E t \in 1..Len(tr_mon) :
           /\ tr_mon[t].pc = "waiting"
           /\ ~tr_procs[tr_process].alive
           /\ tr_is_running' = FALSE
           /\ tr_procs' = [tr_procs EXCEPT ![tr_process].observed = TRUE]
           /\ tr_completions' = Append(tr_completions,
                  [by |-> t, proc |-> tr_process,
                   success |-> tr_procs[tr_process].code = 0])
           /\ tr_mon' = [tr_mon EXCEPT ![t].pc = "done"]
    /\ UNCHANGED <<tr_process, tr_progress_calls, tr_step_lines, tr_last>>
    /\ UNCHANGED TrainOthers

\* stop_training, lines 285-292.  in_time: the process has ended within
\* the 5 seconds of wait(timeout=5); otherwise wait raises TimeoutExpired.
StopTraining ==
    /\ tr_process # 0
    /\ tr_is_running
    /\ \E in_time \in BOOLEAN :
           IF ~tr_procs[tr_process].alive \/ in_time
           THEN /\ tr_procs' = [tr_procs EXCEPT
                      ![tr_process].alive = FALSE,
                      ![tr_process].code =
                          IF tr_procs[tr_process].alive THEN 1 ELSE @,
                      ![tr_process].observed = TRUE]
                /\ tr_is_running' = FALSE
                /\ tr_last' = "stopped"
           ELSE /\ tr_last' = "stop_timeout"
                /\ UNCHANGED <<tr_procs, tr_is_running>>
    /\ UNCHANGED <<tr_process, tr_mon, tr_completions, tr_progress_calls,
                   tr_step_lines>>
    /\ UNCHANGED TrainOthers

NextTrain ==
    \/ StartTraining
    \/ ProcessExit
    \/ MonitorBegin
    \/ MonitorLine
    \/ MonitorEof
    \/ MonitorWait
    \/ StopTraining

SpecTrain == InitTrain /\ [][NextTrain]_vars

\* --------------------------------------------- load_depth_descriptor

MatchWindow == 100          \* line 108: diff < 100

\* Timestamps in milliseconds, of rows and of the frame asked for.
RowTimestamps == {0, 50, 100, 150, 250}
FrameTimestamps == {100, 150}

DescriptorFiles == UNION {[1..n -> RowTimestamps] : n \in 0..MaxRows}

MatchesOnTie(diff, min_diff) ==
    /\ min_diff = Nothing \/ diff <= min_diff[1]
    /\ diff < MatchWindow

\* Line 108: `if diff < min_diff and diff < 100`; min_diff is Nothing while
\* it is float('inf').
Matches(diff, min_diff) ==
    /\ min_diff = Nothing \/ diff < min_diff[1]
    /\ diff < MatchWindow

\* Lines 103-119: the loop over the rows from row k on.
RECURSIVE ScanRows(_, _, _, _, _)
ScanRows(rows, timestamp, k, best_match, min_diff) ==
    IF k > Len(rows) THEN best_match
    ELSE LET diff == Abs(rows[k] - timestamp)
         IN  IF Matches(diff, min_diff)
             THEN ScanRows(rows, timestamp, k + 1, <<k>>, <<diff>>)
             ELSE ScanRows(rows, timestamp, k + 1, best_match, min_diff)

\* Lines 98-121.
LoadDepthDescriptor(rows, timestamp) ==
    ScanRows(rows, timestamp, 1, Nothing, Nothing)

InitDesc ==
    /\ has_open3d = TRUE
    /\ total_frames = 0
    /\ RunDefaults
    /\ ExtrIdle
    /\ GridIdle
    /\ PostIdle
    /\ IntrIdle
    /\ PoseIdle
    /\ ThreadIdle
    /\ TrainIdle
    /\ desc_pc = "ready"
    /\ desc_rows \in DescriptorFiles
    /\ desc_timestamp \in FrameTimestamps
    /\ desc_result = Nothing

\* quest_image_processor.py lines 247-251: the call.
DescCall ==
    /\ desc_pc = "ready"
    /\ desc_result' = LoadDepthDescriptor(desc_rows, desc_timestamp)
    /\ desc_pc' = "done"
    /\ UNCHANGED <<run_vars, ext_vars, grid_vars, post_vars, intr_vars,
                   pose_vars, thread_vars, train_vars, desc_rows,
                   desc_timestamp>>

NextDesc == DescCall

SpecDesc == InitDesc /\ [][NextDesc]_vars

\* C13 (as claimed): the grid a run integrates into is empty when the run
\* starts, also for a second run on the same pipeline object.
C13_GridEmptyAtStart == pc = "entered" => vbg_blocks = 0

\* C14 (as claimed): a run that completes with export.save_mesh true (and a
\* writable export directory) has written the mesh file and names it in
\* output_path, whichever callbacks were supplied.
C14_ExportWritten ==
    (Completed /\ export_env = <<TRUE>>) =>
        (exported /\ result.output_path = "file")

\* C15 (as claimed): a rig rotation that does not have exactly 4 components
\* makes get_camera_extrinsics fail with an error.
C15_RigRotationLengthChecked ==
    (ext_pc = "done" /\ Len(ext_rotation) # 4) =>
        ext_result.kind = "ValueError"

\* C16: an activate call returns, for a coordinate that is already present,
\* the index it has, and for equal coordinates of one call equal indices;
\* it allocates one block per absent coordinate (none when all are
\* present) and leaves the index and the voxels of every present block
\* unchanged.
C16_ActivateIdempotent ==
    [][(g_pc = "open" /\ g_pc' = "activated") =>
          LET coords == BlockCoords(g_frame'.points)
          IN  /\ \A k \in 1..Len(coords) :
                    /\ g_keys'[g_indices'[k]] = coords[k]
                    /\ Present(g_keys, coords[k]) =>
                          g_indices'[k] = IndexOf(g_keys, coords[k])
              /\ \A j, k \in 1..Len(coords) :
                    coords[j] = coords[k] => g_indices'[j] = g_indices'[k]
              /\ Len(g_keys') = Len(g_keys)
                     + Cardinality(CoordSet(coords) \ CoordSet(g_keys))
              /\ \A n \in 1..Len(g_keys) :
                    g_keys'[n] = g_keys[n] /\ g_blocks'[n] = g_blocks[n]
      ]_vars

C16_Witness ==
    /\ g_pc = "activated"
    /\ BlockCoords(g_frame.points) = <<0, 0>>
    /\ g_keys = <<0>>
    /\ g_indices = <<1, 1>>
    /\ g_blocks[1][1].weight > 0

C17_WeightBounds ==
    \A n \in 1..Len(g_blocks), v \in Voxels :
        g_blocks[n][v].weight >= 0 /\ g_blocks[n][v].weight <= g_wmax

C17_WeightMonotone ==
    [][\A n \in 1..Len(g_blocks), v \in Voxels :
          g_blocks'[n][v].weight >= g_blocks[n][v].weight]_vars

\* C17: every voxel's weight is between 0 and the weight cap in every
\* state, and no step of an integration lowers it.
C17_Weights == []C17_WeightBounds /\ C17_WeightMonotone

C17_Witness ==
    /\ g_pc = "open"
    /\ g_capped
    /\ g_wmax = 2
    /\ \E n \in 1..Len(g_blocks) :
          g_blocks[n][1].weight = 2 /\ g_blocks[n][2].weight = 0

C18_WithinCapacity ==
    /\ Len(g_keys) <= g_capacity
    /\ \A m, n \in 1..Len(g_keys) : g_keys[m] = g_keys[n] => m = n

C18_BlocksStay ==
    [][/\ Len(g_keys') >= Len(g_keys)
       /\ \A n \in 1..Len(g_keys) : g_keys'[n] = g_keys[n]]_vars

\* C18: an active block coordinate stays active with its index in every
\* later state, so the block count never decreases; it never exceeds the
\* capacity the grid was created with.
C18_AppendOnly == []C18_WithinCapacity /\ C18_BlocksStay

C18_Witness ==
    /\ g_pc = "failed"
    /\ IntegratedCount >= 1
    /\ Len(g_keys) = g_capacity

\* C19: after one frame was integrated twice into an empty grid, every
\* voxel has the TSDF value (and the weight) it has after integrating the
\* frame once with per-observation weight 2 * WObs.
C19_TwiceIsDoubled ==
    (g_pc = "open" /\ IntegratedCount = 2
       /\ \E f \in GridFrames : g_count[f] = 2) =>
        LET f == CHOOSE f \in GridFrames : g_count[f] = 2
            coords == BlockCoords(f.points)
            a == Activate(EmptyGrid, coords, g_capacity)
            d == Integrate([keys |-> a.keys, blocks |-> a.blocks], coords,
                           f.obs, 2 * WObs, g_wmax)
        IN  /\ g_keys = d.keys
            /\ \A n \in 1..Len(g_keys), v \in Voxels :
                  /\ g_blocks[n][v].tsdf = d.blocks[n][v].tsdf
                  /\ g_blocks[n][v].weight = d.blocks[n][v].weight

C19_Witness ==
    /\ g_pc = "open"
    /\ IntegratedCount = 2
    /\ g_wmax = 1
    /\ \E f \in GridFrames : g_count[f] = 2
    /\ \E n \in 1..Len(g_blocks) :
          g_blocks[n][1].tsdf = <<-1, 2>> /\ g_blocks[n][2].weight = 0

\* The voxels of a grid by block coordinate.
Content(grid) ==
    [c \in CoordSet(grid.keys) |-> grid.blocks[IndexOf(grid.keys, c)]]

Weights(grid) ==
    [c \in CoordSet(grid.keys) |->
        [v \in Voxels |-> grid.blocks[IndexOf(grid.keys, c)][v].weight]]

\* The integrated frames, integrated into an empty grid in one fixed order.
RECURSIVE InFixedOrder(_, _)
InFixedOrder(count, grid) ==
    IF \A f \in GridFrames : count[f] = 0
    THEN grid
    ELSE LET f == CHOOSE f \in GridFrames : count[f] > 0
             coords == BlockCoords(f.points)
             a == Activate(grid, coords, g_capacity)
         IN  InFixedOrder([count EXCEPT ![f] = @ - 1],
                          Integrate([keys |-> a.keys, blocks |-> a.blocks],
                                    coords, f.obs, WObs, g_wmax))

\* C20 (as claimed): the voxels and the active blocks after integrating a
\* set of frames are the same for every order of integration.
C20_OrderIndependent ==
    g_pc = "open" => Content(Grid) = Content(InFixedOrder(g_count, EmptyGrid))

\* C20 (amended): the active blocks and the weights are the same for every
\* order of integration, and so are the TSDF values and colours as long as
\* no weight was clipped to the cap.
C20_OrderIndependentUncapped ==
    g_pc = "open" =>
        LET other == InFixedOrder(g_count, EmptyGrid)
        IN  /\ Weights(Grid) = Weights(other)
            /\ ~g_capped => Content(Grid) = Content(other)

C20_Witness ==
    /\ g_pc = "open"
    /\ ~g_capped
    /\ Cardinality(Integrated) >= 2
    /\ g_frame = (CHOOSE f \in GridFrames : g_count[f] > 0)
    /\ \E n \in 1..Len(g_blocks) :
          g_blocks[n][1].weight = 2 /\ g_blocks[n][1].tsdf = <<1, 2>>

\* The entries of the block_coords handed to vbg.integrate (lines 200-209)
\* that name block c: each entry is one unit of work on the block's voxels.
WritersOf(coords, c) == Cardinality({k \in 1..Len(coords) : coords[k] = c})

C22_EmptyGridCompletes ==
    (has_open3d /\ pc \in Terminal /\ vbg_blocks = 0
       /\ cancel_seen = Nothing) =>
        /\ Completed
        /\ error = NoValue
        /\ mesh_out = [mesh |-> EmptyMesh, ops |-> <<>>]

Has(ops, x) == \E k \in 1..Len(ops) : ops[k] = x

Rank(x) == CASE x = "smooth" -> 1 [] x = "decimate" -> 2 [] x = "cleanup" -> 3

FixedOrder(ops) == \A j, k \in 1..Len(ops) : j < k => Rank(ops[j]) < Rank(ops[k])

\* C23 (as claimed): post-processing runs only if enabled, in the order
\* smoothing, decimation, cleanup; smoothing only with a positive iteration
\* count, decimation only with a positive target below the triangle count;
\* and cleanup is performed on every mesh returned.
C23_CleanupOnEveryMesh ==
    post_pc = "done" =>
        LET ops == post_result.ops
            target == post_config.decimation_target_triangles
        IN  /\ FixedOrder(ops)
            /\ Has(ops, "smooth") =>
                  (post_config.enable
                     /\ post_config.smoothing_iterations > 0)
            /\ Has(ops, "decimate") =>
                  (post_config.enable /\ target > 0
                     /\ post_mesh.triangles > target)
            /\ Has(ops, "cleanup")

\* C23 (amended): as claimed, except that cleanup is performed exactly on
\* the meshes post-processing is applied to: those with vertices, when
\* post-processing is enabled.  Every other mesh is returned as extracted.
C23_PostProcessing ==
    post_pc = "done" =>
        LET ops == post_result.ops
            target == post_config.decimation_target_triangles
            applies == post_config.enable /\ post_mesh.vertices > 0
        IN  /\ FixedOrder(ops)
            /\ Has(ops, "smooth") <=>
                  (applies /\ post_config.smoothing_iterations > 0)
            /\ Has(ops, "decimate") <=>
                  (applies /\ target > 0 /\ post_mesh.triangles > target)
            /\ post_result.mesh.triangles =
                  IF Has(ops, "decimate") THEN target
                  ELSE post_mesh.triangles
            /\ Has(ops, "cleanup") <=> applies
            /\ Has(ops, "cleanup") => post_result.mesh.clean
            /\ ~applies => (ops = <<>> /\ post_result.mesh = post_mesh)

C23_Witness ==
    /\ post_pc = "done"
    /\ post_result.ops = <<"smooth", "decimate", "cleanup">>
    /\ post_mesh.triangles = 3
    /\ post_result.mesh.triangles = 1

\* C24: intrinsics are derived from the depth calibration exactly when
\* it is present, width and height are positive, both tangent sums are
\* above the epsilon and neither derived focal length is below the
\* floor; otherwise the fallback intrinsics are returned; and a frame
\* whose derived intrinsics were accepted is integrated with them.
NotBelowFloor(d) ==
    LET p == ComputeDepthCameraParams(d.fov_left, d.fov_right,
                 d.fov_top, d.fov_down, d.width, d.height)
    IN ~Less(p.fx, <<FocalFloor, 1>>) /\ ~Less(p.fy, <<FocalFloor, 1>>)

Derivable(d) ==
    /\ d # NoValue
    /\ d.width > 0 /\ d.height > 0
    /\ d.fov_left + d.fov_right > FovEpsilon
    /\ d.fov_top + d.fov_down > FovEpsilon
    /\ NotBelowFloor(d)

C24_IntrinsicsRule ==
    /\ intr_pc \in {"got", "done"} =>
           /\ intr_result.computed_from_fov <=> Derivable(intr_depth_info)
           /\ ~intr_result.computed_from_fov =>
                  intr_result.k = FallbackIntrinsics(intr_meta)
    /\ (intr_pc = "done" /\ intr_result.computed_from_fov
            /\ intr_used.pose_valid) =>
           /\ intr_used.outcome = "integrated"
           /\ intr_used.intrinsics = intr_result.k

\* C25: the component the adapter writes as the scalar part w of a
\* frame's head rotation is the one run_reconstruction reads as w, and
\* x, y and z likewise.
C25_QuaternionOrderAgrees ==
    pose_pc = "read" =>
        /\ pose_read.w = pose_row.rot_w
        /\ pose_read.x = pose_row.rot_x
        /\ pose_read.y = pose_row.rot_y
        /\ pose_read.z = pose_row.rot_z

\* C26: with camera selection 'color' the frame is processed as the left
\* camera throughout; in particular the head-to-camera extrinsics are the
\* ones a run with selection 'left' computes from the same metadata.
C26_ColorIsLeft ==
    (ext_pc = "done" /\ ext_camera = "color") =>
        ext_result = GetCameraExtrinsics("left", ext_rotation)

\* C27: for each ReconstructionThread run exactly one of on_finished and
\* on_error is invoked, once, and only after run_reconstruction returned
\* or raised; on_finished only for a run that completed with a mesh; and
\* when stop() was called on the running thread the loop halted at a frame
\* boundary, on_finished is not invoked and on_error is.
C27_ThreadCallbacks ==
    /\ thread_pc = "running" => finished_calls + error_calls = 0
    /\ thread_pc = "done" =>
           /\ pc \in Terminal
           /\ finished_calls + error_calls = 1
           /\ finished_calls = 1 => (pc = "returned" /\ HasMesh(result))
           /\ cancel_seen # Nothing => (pc = "returned" /\ ~HasMesh(result))
           /\ cancel_requested =>
                  (finished_calls = 0 /\ error_calls = 1)

\* C28: at most one subprocess launched by a trainer is alive at any time,
\* and is_running is true exactly while a launched process has not been
\* observed to exit.
Alive == {n \in 1..Len(tr_procs) : tr_procs[n].alive}

C28_OneTrainingProcess ==
    /\ Cardinality(Alive) <= 1
    /\ tr_is_running <=>
           \E n \in 1..Len(tr_procs) : ~tr_procs[n].observed

\* C29: for every start_training call that returned True the completion
\* callback is invoked exactly once, after the subprocess of that call has
\* exited and with success equal to (exit code is 0), whatever the
\* subprocess prints; progress_callback is invoked for each line read that
\* carries a step number.
CompletionsBy(t) ==
    {k \in 1..Len(tr_completions) : tr_completions[k].by = t}

C29_CompletionOnce ==
    /\ \A t \in 1..Len(tr_mon) :
           /\ Cardinality(CompletionsBy(t)) <= 1
           /\ tr_mon[t].pc \in {"done", "error"} =>
                  Cardinality(CompletionsBy(t)) = 1
           /\ \A k \in CompletionsBy(t) :
                  /\ ~tr_procs[t].alive
                  /\ tr_completions[k].success = (tr_procs[t].code = 0)
    /\ tr_progress_calls = tr_step_lines

\* C30: load_depth_descriptor returns the row nearest to the timestamp
\* asked for among the rows whose absolute difference is strictly below
\* 100 ms, the earliest in file order on a tie, and None exactly when no
\* row is within 100 ms.
RowDiff(k) == Abs(desc_rows[k] - desc_timestamp)

Within100 == {k \in 1..Len(desc_rows) : RowDiff(k) < 100}

C30_NearestRowWithin100 ==
    desc_pc = "done" =>
        /\ desc_result = Nothing <=> Within100 = {}
        /\ desc_result # Nothing =>
               /\ desc_result[1] \in Within100
               /\ \A j \in Within100 :
                      \/ RowDiff(desc_result[1]) < RowDiff(j)
                      \/ /\ RowDiff(desc_result[1]) = RowDiff(j)
                         /\ desc_result[1] <= j

\* A file with a tie between two nearest rows and a row exactly 100 ms off.
C30_Witness ==
    /\ desc_pc = "done"
    /\ desc_result # Nothing
    /\ \E j \in Within100 :
           j > desc_result[1] /\ RowDiff(j) = RowDiff(desc_result[1])
    /\ \E k \in 1..Len(desc_rows) : RowDiff(k) = 100

====
